---- MODULE Spec2Model ----
(***************************************************************************)
(* A state-machine model of the CHIP-8 interpreter of src/src/chips.c.     *)
(*                                                                         *)
(* Encodings.                                                              *)
(*  - An instruction word, an address, a register value and a time stamp   *)
(*    are naturals; the fixed-width ones are reduced modulo their width    *)
(*    where the code's arithmetic wraps (uint8_t V, uint16_t PC).          *)
(*  - A uint64_t display row is the set of its bit positions that hold 1   *)
(*    (a subset of 0..63); x ^= m is the symmetric difference.             *)
(*  - RAM is a sparse byte array: a function from the addresses that were  *)
(*    written to their bytes; every other address holds the 0 that         *)
(*    SDL_calloc left there.                                               *)
(*  - The C code indexes RAM, display_cells and the shift of line 222 with *)
(*    unchecked values.  What such an access does is undefined in C; the   *)
(*    variable build fixes, for a whole run, one of the outcomes a build   *)
(*    of the program produces (see Builds).                                *)
(***************************************************************************)
EXTENDS Integers, Sequences, FiniteSets, TLC

(* ---------------- program constants (chips.c, lines 11-17) ------------- *)
RAM_SIZE == 4096
ROM_MAX_SIZE == 3584
ROM_GAME_ADDRESS_START == 512
STEP_RATE_IN_MILLISECONDS == 100
CHIP8_DISPLAY_WIDTH == 64
CHIP8_DISPLAY_HEIGHT == 32

(* ---------------- bounds of the model ---------------------------------- *)
\* the host clock is read for this many step intervals after start-up
MaxSteps == 4
\* longest ROM, in 16-bit words, of the generic ROM family
MaxRomWords == 2

(* ---------------- layout of CHIP8Context (lines 50-69) ----------------- *)
\* byte offsets of the fields that follow RAM in the struct; uint16_t and
\* uint8_t fields are packed, the uint64_t array is 8-aligned
PC_OFFSET == RAM_SIZE
I_OFFSET == PC_OFFSET + 2
DELAY_TIMER_OFFSET == I_OFFSET + 2
SOUND_TIMER_OFFSET == DELAY_TIMER_OFFSET + 1
DISPLAY_OFFSET == ((SOUND_TIMER_OFFSET + 1 + 7) \div 8) * 8
V_OFFSET == DISPLAY_OFFSET + 8 * CHIP8_DISPLAY_HEIGHT
CONTEXT_SIZE == V_OFFSET + 16

(* ---------------- outcomes of undefined accesses ----------------------- *)
\* "mask": the hardware shift takes its count modulo 64 (x86-64, AArch64) and
\*         an out-of-range index addresses the neighbouring struct field;
\* "zero": a shift by an out-of-range count yields 0 (32-bit ARM), indexing
\*         as for "mask";
\* "trap": the build checks shifts and bounds and aborts the process.
Builds == {"mask", "zero", "trap"}

(* ---------------- nibbles of an instruction (lines 26-48) -------------- *)
GET_FIRST_NIBBLE(instruction) == (instruction \div 4096) % 16
GET_SECOND_NIBBLE(instruction) == (instruction \div 256) % 16
GET_THIRD_NIBBLE(instruction) == (instruction \div 16) % 16
GET_FOURTH_NIBBLE(instruction) == instruction % 16
GET_THIRD_AND_FORTH_NIBBLES(instruction) == instruction % 256
GET_SECOND_THIRD_AND_FOURTH_NIBBLES(instruction) == instruction % 4096

(* ---------------- bit helpers ------------------------------------------ *)
\* bit b of the natural v
BitOf(v, b) == (v \div (2^b)) % 2
\* v with bit b flipped
FlipBit(v, b) == IF BitOf(v, b) = 1 THEN v - 2^b ELSE v + 2^b
\* x ^ m on bit sets
XorBits(row, m) == (row \ m) \cup (m \ row)
\* byte k (little-endian) of a uint64_t given as a bit set
RowByte(row, k) ==
  LET b(i) == IF (8 * k + i) \in row THEN 2^i ELSE 0
  IN b(0) + b(1) + b(2) + b(3) + b(4) + b(5) + b(6) + b(7)

VARIABLES
  RAM,             \* chip8_context.RAM (sparse)
  PC,              \* chip8_context.PC
  I,               \* chip8_context.I
  delay_timer,     \* chip8_context.delay_timer
  sound_timer,     \* chip8_context.sound_timer
  display_cells,   \* chip8_context.display_cells: row -> bit set
  V,               \* chip8_context.V
  need_redraw,     \* AppState.need_redraw
  last_step,       \* AppState.last_step
  now,             \* the last reading of SDL_GetTicks()
  cur_instruction, \* the local of SDL_AppIterate, line 277
  pc,              \* position of the program, see Positions
  build,           \* the build's outcome of undefined accesses
  fault,           \* "none", or why the run left defined behaviour
  presented,       \* the frame last handed to draw_screen
  hist,            \* history: the last two fetches (state before, word)
  executed,        \* history: number of instructions decoded so far
  redraw_requests, \* history: number of them that left need_redraw set
  draw_calls,      \* history: number of calls of draw_screen
  entry,           \* history: last_step at start-up; last_step and executed
                   \* when SDL_AppIterate was last entered
  rom_load         \* history: the ROM file given, whether read_rom_file
                   \* reported it, and the bytes fread copied

vars == <<RAM, PC, I, delay_timer, sound_timer, display_cells, V, need_redraw,
          last_step, now, cur_instruction, pc, build, fault, presented, hist,
          executed, redraw_requests, draw_calls, entry, rom_load>>

\* "init": in SDL_AppInit, before the call of line 135; "idle": between two
\* host callbacks; "loop": at the while test of line 275; "decode": after line
\* 277; "redraw": after line 279; "fault": the process aborted or wrote
\* outside the machine context
Positions == {"init", "idle", "loop", "decode", "redraw", "fault"}

\* the machine state as one record
Ctx ==
  [RAM |-> RAM, PC |-> PC, I |-> I, delay_timer |-> delay_timer,
   sound_timer |-> sound_timer, display_cells |-> display_cells, V |-> V,
   need_redraw |-> need_redraw, last_step |-> last_step, fault |-> "none"]

(* ---------------- memory reads ------------------------------------------ *)
\* RAM[a] for a inside the array
RamAt(ram, a) == IF a \in DOMAIN ram THEN ram[a] ELSE 0

\* the byte at offset a of the CHIP8Context, for RAM_SIZE <= a < CONTEXT_SIZE:
\* what RAM[a] addresses when a runs past the array (little-endian fields)
ContextByte(ctx, a) ==
  IF a = PC_OFFSET THEN ctx.PC % 256
  ELSE IF a = PC_OFFSET + 1 THEN ctx.PC \div 256
  ELSE IF a = I_OFFSET THEN ctx.I % 256
  ELSE IF a = I_OFFSET + 1 THEN ctx.I \div 256
  ELSE IF a = DELAY_TIMER_OFFSET THEN ctx.delay_timer
  ELSE IF a = SOUND_TIMER_OFFSET THEN ctx.sound_timer
  ELSE IF a < DISPLAY_OFFSET THEN 0
  ELSE IF a < V_OFFSET
       THEN RowByte(ctx.display_cells[(a - DISPLAY_OFFSET) \div 8],
                    (a - DISPLAY_OFFSET) % 8)
  ELSE ctx.V[a - V_OFFSET]

\* whether the read RAM[a] ends the run: the checking build aborts on any
\* index past the array, the others when the address leaves the context
ReadFaults(a, b) == a >= RAM_SIZE /\ (b = "trap" \/ a >= CONTEXT_SIZE)

\* the value of RAM[a] when the read does not fault
ReadByte(ctx, a) == IF a < RAM_SIZE THEN RamAt(ctx.RAM, a) ELSE ContextByte(ctx, a)

(* ---------------- fetch_instruction (lines 153-159) --------------------- *)
\* a fetch that takes the first byte as the low-order byte
fetch_little_endian(ctx, b) ==
  IF ReadFaults(ctx.PC, b) \/ ReadFaults(ctx.PC + 1, b)
  THEN [instruction |-> 0, PC |-> ctx.PC, fault |-> "fetch"]
  ELSE [instruction |-> ReadByte(ctx, ctx.PC + 1) * 256 + ReadByte(ctx, ctx.PC),
        PC |-> (ctx.PC + 2) % 65536,
        fault |-> "none"]

\* the instruction word and the new PC; fault when a byte read faults
fetch_instruction(ctx, b) ==
  IF ReadFaults(ctx.PC, b) \/ ReadFaults(ctx.PC + 1, b)
  THEN [instruction |-> 0, PC |-> ctx.PC, fault |-> "fetch"]
  ELSE [instruction |-> ReadByte(ctx, ctx.PC) * 256 + ReadByte(ctx, ctx.PC + 1),
        PC |-> (ctx.PC + 2) % 65536,
        fault |-> "none"]

(* ---------------- get_display_cell (lines 161-164) ---------------------- *)
get_display_cell(cells, row, col) ==
  LET shift == CHIP8_DISPLAY_WIDTH - col - 1
  IN IF shift \in cells[row] THEN 1 ELSE 0

(* ---------------- draw_screen (lines 242-266) --------------------------- *)
\* the frame the renderer shows: the <<column, row>> cells filled white
draw_screen(cells) ==
  {c \in (0 .. CHIP8_DISPLAY_WIDTH - 1) \X (0 .. CHIP8_DISPLAY_HEIGHT - 1) :
     get_display_cell(cells, c[2], c[1]) # 0}

(* ---------------- decode_instruction (lines 166-235) -------------------- *)
\* a clear that zeroes the whole CHIP8Context, RAM included
ExecCLSWholeContext(ctx) ==
  [ctx EXCEPT !.RAM = <<>>,
              !.display_cells = [r \in 0 .. CHIP8_DISPLAY_HEIGHT - 1 |-> {}],
              !.need_redraw = TRUE]

\* a clear that zeroes sizeof(uint64_t) bytes, the first row only
ExecCLSFirstRow(ctx) ==
  [ctx EXCEPT !.display_cells[0] = {}, !.need_redraw = TRUE]

\* case 0x0, third nibble 0xE (lines 180-185): clear the display
ExecCLS(ctx) ==
  [ctx EXCEPT !.display_cells = [r \in 0 .. CHIP8_DISPLAY_HEIGHT - 1 |-> {}],
              !.need_redraw = TRUE]

\* a jump that takes the 8-bit operand for the address
ExecJPByte(ctx, instruction) ==
  [ctx EXCEPT !.PC = GET_THIRD_AND_FORTH_NIBBLES(instruction)]

\* case 0x1 (lines 190-194): jump
ExecJP(ctx, instruction) ==
  [ctx EXCEPT !.PC = GET_SECOND_THIRD_AND_FOURTH_NIBBLES(instruction)]

\* a load that indexes the register with the third nibble
ExecLDThirdNibble(ctx, instruction) ==
  [ctx EXCEPT !.V[GET_THIRD_NIBBLE(instruction)] =
                 GET_THIRD_AND_FORTH_NIBBLES(instruction)]

\* case 0x6 (lines 195-199): load an immediate into a register
ExecLD(ctx, instruction) ==
  [ctx EXCEPT !.V[GET_SECOND_NIBBLE(instruction)] =
                 GET_THIRD_AND_FORTH_NIBBLES(instruction)]

\* an add that reports the carry in VF
ExecADDCarry(ctx, instruction) ==
  LET sum == ctx.V[GET_SECOND_NIBBLE(instruction)]
             + GET_THIRD_AND_FORTH_NIBBLES(instruction)
  IN [ctx EXCEPT !.V = [[@ EXCEPT ![15] = IF sum > 255 THEN 1 ELSE 0]
                          EXCEPT ![GET_SECOND_NIBBLE(instruction)] = sum % 256]]

\* case 0x7 (lines 200-204): add an immediate to a register (uint8_t +=)
ExecADD(ctx, instruction) ==
  [ctx EXCEPT !.V[GET_SECOND_NIBBLE(instruction)] =
                 (@ + GET_THIRD_AND_FORTH_NIBBLES(instruction)) % 256]

\* a load of I that takes the 8-bit operand for the address
ExecLDIByte(ctx, instruction) ==
  [ctx EXCEPT !.I = GET_THIRD_AND_FORTH_NIBBLES(instruction)]

\* case 0xA (lines 205-209): load the index register
ExecLDI(ctx, instruction) ==
  [ctx EXCEPT !.I = GET_SECOND_THIRD_AND_FOURTH_NIBBLES(instruction)]

\* line 222, right operand: the bits of (uint64_t)sprite_bit_value << bit_pos.
\* A count outside 0..63 is undefined: taken modulo 64 or yielding 0.
ShiftMask(sprite_bit_value, bit_pos, b) ==
  IF sprite_bit_value = 0 THEN {}
  ELSE IF bit_pos \in 0 .. 63 THEN {bit_pos}
  ELSE IF b = "mask" THEN {bit_pos % 64}
  ELSE {}

\* line 222: *display_row ^= mask, display_row = &display_cells[row] (line 218).
\* Rows 32 and 33 of the array are the sixteen bytes of V, which follow it in
\* the struct.  A row beyond them lies outside the machine context, in the
\* rest of AppState and the heap: a write there corrupts host memory, and the
\* run ends in the fault "host".  The checking build aborts at the first
\* out-of-range count or row.
XorCell(ctx, row, sprite_bit_value, bit_pos, b) ==
  LET m == ShiftMask(sprite_bit_value, bit_pos, b)
  IN IF b = "trap" /\ bit_pos \notin 0 .. 63 THEN [ctx EXCEPT !.fault = "shift"]
     ELSE IF row < CHIP8_DISPLAY_HEIGHT
          THEN [ctx EXCEPT !.display_cells[row] = XorBits(@, m)]
     ELSE IF b = "trap" THEN [ctx EXCEPT !.fault = "row"]
     ELSE IF m = {} THEN ctx
     ELSE IF row < CHIP8_DISPLAY_HEIGHT + 2
          THEN LET p == CHOOSE q \in m : TRUE
               IN [ctx EXCEPT !.V[8 * (row - CHIP8_DISPLAY_HEIGHT) + (p \div 8)] =
                                 FlipBit(@, p % 8)]
     ELSE [ctx EXCEPT !.fault = "host"]

\* the three index expressions of the loops: line 217, RAM[I + y]; line 218,
\* display_cells[y_coord + y]; line 221, the shift count
SpriteAddress(i, y) == i + y
RowIndex(y_coord, y) == y_coord + y
\* a shift count that takes display column c for bit c of the row
BitPosFromRight(x_coord, x) == x_coord + x
BitPos(x_coord, x) == CHIP8_DISPLAY_WIDTH - 1 - (x_coord + x)

\* the inner loop, lines 219-223, from column x on
RECURSIVE DrawCols(_, _, _, _, _, _)
DrawCols(ctx, row, sprite_data, x_coord, x, b) ==
  IF x >= 8 \/ ctx.fault # "none" THEN ctx
  ELSE LET sprite_bit_value == BitOf(sprite_data, 7 - x)
           bit_pos == BitPos(x_coord, x)
       IN DrawCols(XorCell(ctx, row, sprite_bit_value, bit_pos, b),
                   row, sprite_data, x_coord, x + 1, b)

\* the outer loop, lines 216-224, from sprite row y on
RECURSIVE DrawRows(_, _, _, _, _, _)
DrawRows(ctx, x_coord, y_coord, n, y, b) ==
  IF y >= n \/ ctx.fault # "none" THEN ctx
  ELSE IF ReadFaults(SpriteAddress(ctx.I, y), b) THEN [ctx EXCEPT !.fault = "sprite"]
  ELSE LET sprite_data == ReadByte(ctx, SpriteAddress(ctx.I, y))
       IN DrawRows(DrawCols(ctx, RowIndex(y_coord, y), sprite_data, x_coord, 0, b),
                   x_coord, y_coord, n, y + 1, b)

\* a draw that leaves I after the sprite
ExecDRWAdvancesI(ctx, instruction, b) ==
  LET x_coord == ctx.V[GET_SECOND_NIBBLE(instruction)]
      y_coord == ctx.V[GET_THIRD_NIBBLE(instruction)]
      n == GET_FOURTH_NIBBLE(instruction)
      drawn == DrawRows([ctx EXCEPT !.V[15] = 0], x_coord, y_coord, n, 0, b)
  IN [drawn EXCEPT !.need_redraw = TRUE, !.I = (@ + n) % 65536]

\* a draw that leaves need_redraw as it was
ExecDRWKeepsFlag(ctx, instruction, b) ==
  LET x_coord == ctx.V[GET_SECOND_NIBBLE(instruction)]
      y_coord == ctx.V[GET_THIRD_NIBBLE(instruction)]
      n == GET_FOURTH_NIBBLE(instruction)
  IN DrawRows([ctx EXCEPT !.V[15] = 0], x_coord, y_coord, n, 0, b)

\* case 0xD (lines 210-230): draw a sprite
ExecDRW(ctx, instruction, b) ==
  LET x_coord == ctx.V[GET_SECOND_NIBBLE(instruction)]
      y_coord == ctx.V[GET_THIRD_NIBBLE(instruction)]
      n == GET_FOURTH_NIBBLE(instruction)
      drawn == DrawRows([ctx EXCEPT !.V[15] = 0], x_coord, y_coord, n, 0, b)
  IN [drawn EXCEPT !.need_redraw = TRUE]

\* a switch whose case 0x0 clears the display whatever the third nibble
decode_zero_clears(instruction, ctx, b) ==
  LET first_nibble == GET_FIRST_NIBBLE(instruction)
  IN CASE first_nibble = 0 -> ExecCLS(ctx)
       [] first_nibble = 1 -> ExecJP(ctx, instruction)
       [] first_nibble = 6 -> ExecLD(ctx, instruction)
       [] first_nibble = 7 -> ExecADD(ctx, instruction)
       [] first_nibble = 10 -> ExecLDI(ctx, instruction)
       [] first_nibble = 13 -> ExecDRW(ctx, instruction, b)
       [] OTHER -> ctx

\* the switch of lines 177-234
decode_instruction(instruction, ctx, b) ==
  LET first_nibble == GET_FIRST_NIBBLE(instruction)
      third_nibble == GET_THIRD_NIBBLE(instruction)
  IN CASE first_nibble = 0 -> IF third_nibble = 14 THEN ExecCLS(ctx) ELSE ctx
       [] first_nibble = 1 -> ExecJP(ctx, instruction)
       [] first_nibble = 6 -> ExecLD(ctx, instruction)
       [] first_nibble = 7 -> ExecADD(ctx, instruction)
       [] first_nibble = 10 -> ExecLDI(ctx, instruction)
       [] first_nibble = 13 -> ExecDRW(ctx, instruction, b)
       [] OTHER -> ctx

(* ---------------- read_rom_file (lines 79-108) -------------------------- *)
\* what fread (line 106) gets from a stream that fclose (line 102) has already
\* released; the use of the released FILE is undefined.  "error": the read
\* fails and copies nothing; "data": the descriptor still delivers and the
\* bytes are copied; "abort": the process is stopped, at the read or at the
\* second fclose of line 107
ClosedStreams == {"error", "data", "abort"}

\* the byte at &RAM[a], RAM_SIZE <= a < CONTEXT_SIZE, after count bytes of the
\* file were copied to &RAM[0x200]: the byte of the file when the copy reaches
\* a, the byte of the field that lies there otherwise (see ContextByte)
StoredByte(ctx, file, count, a) ==
  IF a - ROM_GAME_ADDRESS_START < count
  THEN file[a - ROM_GAME_ADDRESS_START + 1]
  ELSE ContextByte(ctx, a)

\* line 106: fread(&RAM[0x200], 1, count, fp) from a stream that delivers.
\* The bytes after the first ROM_MAX_SIZE go to the fields that follow RAM in
\* CHIP8Context; a copy that runs beyond the machine context ends the run in
\* the fault "host"
fread(ctx, file, count) ==
  LET inside == IF count <= ROM_MAX_SIZE THEN count ELSE ROM_MAX_SIZE
      loaded == [a \in ROM_GAME_ADDRESS_START .. ROM_GAME_ADDRESS_START + inside - 1 |->
                   file[a - ROM_GAME_ADDRESS_START + 1]]
      byte(a) == StoredByte(ctx, file, count, a)
  IN IF count <= ROM_MAX_SIZE THEN [ctx EXCEPT !.RAM = loaded]
     ELSE IF ROM_GAME_ADDRESS_START + count > CONTEXT_SIZE
          THEN [ctx EXCEPT !.RAM = loaded, !.fault = "host"]
     ELSE [ctx EXCEPT
             !.RAM = loaded,
             !.PC = byte(PC_OFFSET) + 256 * byte(PC_OFFSET + 1),
             !.I = byte(I_OFFSET) + 256 * byte(I_OFFSET + 1),
             !.delay_timer = byte(DELAY_TIMER_OFFSET),
             !.sound_timer = byte(SOUND_TIMER_OFFSET),
             !.display_cells =
               [r \in 0 .. CHIP8_DISPLAY_HEIGHT - 1 |->
                  {p \in 0 .. CHIP8_DISPLAY_WIDTH - 1 :
                     BitOf(byte(DISPLAY_OFFSET + 8 * r + (p \div 8)), p % 8) = 1}],
             !.V = [r \in 0 .. 15 |-> byte(V_OFFSET + r)]]

\* a ROM file is a sequence of bytes.  Lines 97-99 take its length; lines
\* 101-104 report a file of more than ROM_MAX_SIZE bytes and close the stream,
\* and the function goes on; line 106 asks for rom_file_size bytes whatever
\* the size.  closed is what the released stream then does; the checking build
\* stops at its use.  The result: the context, whether the file was reported,
\* and the number of bytes copied.
read_rom_file(ctx, file, closed, b) ==
  LET rom_file_size == Len(file)
  IN IF rom_file_size <= ROM_MAX_SIZE
     THEN [ctx |-> fread(ctx, file, rom_file_size), reported |-> FALSE,
           copied |-> rom_file_size]
     ELSE IF b = "trap" \/ closed = "abort"
          THEN [ctx |-> [ctx EXCEPT !.fault = "stream"], reported |-> TRUE,
                copied |-> 0]
     ELSE IF closed = "error"
          THEN [ctx |-> ctx, reported |-> TRUE, copied |-> 0]
     ELSE [ctx |-> fread(ctx, file, rom_file_size), reported |-> TRUE,
           copied |-> rom_file_size]

(* ---------------- the ROM files of the model ---------------------------- *)
\* the instruction word of four nibbles
Op(a, b, c, d) == a * 4096 + b * 256 + c * 16 + d

\* the bytes of a sequence of words, big-endian as fetch reads them
RECURSIVE RomBytes(_)
RomBytes(words) ==
  IF words = <<>> THEN <<>>
  ELSE <<words[1] \div 256, words[1] % 256>> \o RomBytes(Tail(words))

\* one-instruction ROMs: every category with varied operands
Words1 ==
  {Op(0, 0, 0, 0), Op(0, 0, 14, 0), Op(0, 0, 14, 14), Op(0, 15, 14, 5),
   Op(0, 0, 15, 0), Op(1, 2, 0, 0), Op(1, 2, 3, 4), Op(1, 10, 11, 12),
   Op(1, 15, 15, 14), Op(1, 15, 15, 15), Op(10, 0, 0, 0), Op(10, 2, 0, 0),
   Op(10, 15, 15, 15)}
  \cup {Op(f, 1, 2, 3) : f \in {2, 3, 4, 5, 8, 9, 11, 12, 14, 15}}
  \cup {Op(f, x, 0, 0) + nn : f \in {6, 7}, x \in {0, 3, 15}, nn \in {0, 1, 128, 255}}
  \cup {Op(13, x, y, n) : x \in {0, 15}, y \in {1, 15}, n \in {0, 1, 15}}

\* the alphabet of the generic ROMs: CLS, JP 0x200, LD V0 60, LD V1 33,
\* ADD V0 2, LD I 0x200, DRW V0 V1 2, and an unknown word
Words ==
  {Op(0, 0, 14, 0), Op(1, 2, 0, 0), Op(6, 0, 3, 12), Op(6, 1, 2, 1),
   Op(7, 0, 0, 2), Op(10, 2, 0, 0), Op(13, 0, 1, 2), Op(8, 0, 0, 0)}

\* all sequences over Words of length 1..k
RECURSIVE WordSeqs(_)
WordSeqs(k) ==
  IF k = 0 THEN {<<>>}
  ELSE LET shorter == WordSeqs(k - 1)
       IN shorter \cup {Append(s, w) : s \in {t \in shorter : Len(t) = k - 1},
                                         w \in Words}

\* ROMs written for particular cases
NamedRoms ==
  { \* LD V3 0xFF; LD V0 60; LD I 0x201; DRW V0 V1 1: the byte 0xFF at column 60
    <<Op(6, 3, 15, 15), Op(6, 0, 3, 12), Op(10, 2, 0, 1), Op(13, 0, 1, 1)>>,
    \* the same sprite drawn twice, inside the display
    <<Op(10, 2, 0, 0), Op(13, 0, 0, 5), Op(13, 0, 0, 5)>>,
    \* a sprite drawn twice that starts at the last byte of RAM
    <<Op(10, 15, 15, 15), Op(13, 0, 0, 2), Op(13, 0, 0, 2)>>,
    \* LD VF 7; LD V0 0xFF; ADD V0 2; ADD VF 0xFF
    <<Op(6, 15, 0, 7), Op(6, 0, 15, 15), Op(7, 0, 0, 2), Op(7, 15, 15, 15)>>,
    \* LD V1 32; LD I 0x200; DRW V0 V1 2: rows 32 and 33
    <<Op(6, 1, 2, 0), Op(10, 2, 0, 0), Op(13, 0, 1, 2)>>,
    \* LD V1 31; LD I 0x200; DRW V0 V1 5: rows 31 to 35
    <<Op(6, 1, 1, 15), Op(10, 2, 0, 0), Op(13, 0, 1, 5)>>,
    \* LD VF 5; LD I 0x200; DRW VF V1 1 twice
    <<Op(6, 15, 0, 5), Op(10, 2, 0, 0), Op(13, 15, 1, 1), Op(13, 15, 1, 1)>>,
    \* draw, then clear
    <<Op(10, 2, 0, 0), Op(13, 0, 0, 5), Op(0, 0, 14, 0), Op(0, 3, 14, 7)>>,
    \* set registers, I and the display, then unknown words
    <<Op(6, 3, 15, 15), Op(10, 2, 0, 0), Op(13, 0, 0, 5), Op(8, 1, 2, 3)>>,
    <<Op(6, 3, 15, 15), Op(10, 2, 0, 0), Op(13, 0, 0, 5), Op(0, 0, 15, 0)>>,
    \* set registers, I and the display, then jump, load
    <<Op(6, 3, 15, 15), Op(10, 2, 0, 0), Op(13, 0, 0, 5), Op(1, 10, 11, 12)>>,
    <<Op(6, 3, 15, 15), Op(10, 2, 0, 0), Op(13, 0, 0, 5), Op(6, 3, 0, 7)>>,
    <<Op(6, 3, 15, 15), Op(10, 2, 0, 0), Op(13, 0, 0, 5), Op(7, 3, 0, 7)>>,
    <<Op(6, 3, 15, 15), Op(10, 2, 0, 0), Op(13, 0, 0, 5), Op(10, 1, 2, 3)>>,
    \* LD V0 5; LD I 0x200; DRW V0 V1 2 twice: a sprite away from column 0
    <<Op(6, 0, 0, 5), Op(10, 2, 0, 0), Op(13, 0, 1, 2), Op(13, 0, 1, 2)>>,
    \* draw; LD VF 7; DRW V1 V0 0: an empty sprite on a lit display
    <<Op(10, 2, 0, 0), Op(13, 0, 0, 5), Op(6, 15, 0, 7), Op(13, 1, 0, 0)>>,
    \* LD V1 32; LD I 0x200; DRW VF V1 2 twice: rows 32 and 33, X = 0xF
    <<Op(6, 1, 2, 0), Op(10, 2, 0, 0), Op(13, 15, 1, 2), Op(13, 15, 1, 2)>>,
    \* the words 0x1234: bytes 0x12, 0x34
    <<Op(1, 2, 3, 4)>> }

Roms == {<<w>> : w \in Words1} \cup (WordSeqs(MaxRomWords) \ {<<>>}) \cup NamedRoms

\* readings of the host clock at start-up, and the time between two frames
StartTicks == {0, 25}
TickDeltas == {60, 250}
\* the clock is not read beyond this value (milliseconds)
MaxNow == STEP_RATE_IN_MILLISECONDS * MaxSteps + 60

(* ---------------- SDL_AppInit (lines 111-143) --------------------------- *)
\* files of ROM_MAX_SIZE bytes and around it, and files that reach the timers,
\* the end of the machine context and beyond it; their bytes are not zero
FileSizes ==
  {ROM_MAX_SIZE - 1, ROM_MAX_SIZE, ROM_MAX_SIZE + 1, ROM_MAX_SIZE + 2,
   ROM_MAX_SIZE + 6, CONTEXT_SIZE - ROM_GAME_ADDRESS_START,
   CONTEXT_SIZE - ROM_GAME_ADDRESS_START + 1}
FilledFile(size) == [k \in 1 .. size |-> (k % 255) + 1]
RomFiles == {RomBytes(rom) : rom \in Roms} \cup {FilledFile(size) : size \in FileSizes}

\* lines 119-129: the zeroed AppState with PC at the start of the ROM
StartContext ==
  [RAM |-> <<>>, PC |-> ROM_GAME_ADDRESS_START, I |-> 0, delay_timer |-> 0,
   sound_timer |-> 0,
   display_cells |-> [r \in 0 .. CHIP8_DISPLAY_HEIGHT - 1 |-> {}],
   V |-> [r \in 0 .. 15 |-> 0], need_redraw |-> FALSE, last_step |-> 0,
   fault |-> "none"]

\* the histories at start-up
NoHistory ==
  /\ cur_instruction = 0
  /\ presented = [shown |-> FALSE, frame |-> {}]
  /\ hist = <<>>
  /\ executed = 0
  /\ redraw_requests = 0
  /\ draw_calls = 0

\* the state when SDL_AppInit has returned, for a ROM file of at most
\* ROM_MAX_SIZE bytes
Init ==
  \E rom \in Roms, b \in Builds, t \in StartTicks :
    LET r == read_rom_file(StartContext, RomBytes(rom), "error", b)
    IN /\ RAM = r.ctx.RAM
       /\ PC = r.ctx.PC
       /\ I = r.ctx.I
       /\ delay_timer = r.ctx.delay_timer
       /\ sound_timer = r.ctx.sound_timer
       /\ display_cells = r.ctx.display_cells
       /\ V = r.ctx.V
       /\ need_redraw = r.ctx.need_redraw
       /\ last_step = t
       /\ now = t
       /\ pc = "idle"
       /\ build = b
       /\ fault = "none"
       /\ NoHistory
       /\ entry = [start |-> t, last_step |-> t, executed |-> 0]
       /\ rom_load = [file |-> RomBytes(rom), reported |-> r.reported,
                      copied |-> r.copied]

\* the state in SDL_AppInit at line 135, before read_rom_file is called, for
\* any ROM file
InitRom ==
  \E file \in RomFiles, b \in Builds :
    /\ RAM = StartContext.RAM
    /\ PC = StartContext.PC
    /\ I = StartContext.I
    /\ delay_timer = StartContext.delay_timer
    /\ sound_timer = StartContext.sound_timer
    /\ display_cells = StartContext.display_cells
    /\ V = StartContext.V
    /\ need_redraw = StartContext.need_redraw
    /\ last_step = StartContext.last_step
    /\ now = 0
    /\ pc = "init"
    /\ build = b
    /\ fault = "none"
    /\ NoHistory
    /\ entry = [start |-> 0, last_step |-> 0, executed |-> 0]
    /\ rom_load = [file |-> file, reported |-> FALSE, copied |-> 0]

\* lines 135-139: the ROM is read, then last_step takes the clock
SDL_AppInit ==
  /\ pc = "init"
  /\ \E closed \in ClosedStreams, t \in StartTicks :
       LET r == read_rom_file(Ctx, rom_load.file, closed, build)
       IN /\ RAM' = r.ctx.RAM
          /\ PC' = r.ctx.PC
          /\ I' = r.ctx.I
          /\ delay_timer' = r.ctx.delay_timer
          /\ sound_timer' = r.ctx.sound_timer
          /\ display_cells' = r.ctx.display_cells
          /\ V' = r.ctx.V
          /\ rom_load' = [rom_load EXCEPT !.reported = r.reported,
                                          !.copied = r.copied]
          /\ IF r.ctx.fault # "none"
             THEN /\ pc' = "fault"
                  /\ fault' = r.ctx.fault
                  /\ UNCHANGED <<last_step, now, entry>>
             ELSE /\ pc' = "idle"
                  /\ last_step' = t
                  /\ now' = t
                  /\ entry' = [start |-> t, last_step |-> t, executed |-> 0]
                  /\ UNCHANGED fault
  /\ UNCHANGED <<need_redraw, cur_instruction, build, presented, hist, executed,
                 redraw_requests, draw_calls>>

(* ---------------- SDL_AppIterate (lines 269-294) ------------------------ *)
\* line 275: (now - as->last_step) >= STEP_RATE_IN_MILLISECONDS on Uint64; the
\* difference of a later last_step wraps to a number near 2^64
StepDue ==
  IF now >= last_step THEN now - last_step >= STEP_RATE_IN_MILLISECONDS ELSE TRUE

\* line 271: the host calls back and the clock is read
AppIterate ==
  /\ pc = "idle"
  /\ UNCHANGED rom_load
  /\ \E d \in TickDeltas :
       /\ now + d <= MaxNow
       /\ now' = now + d
  /\ pc' = "loop"
  /\ entry' = [entry EXCEPT !.last_step = last_step, !.executed = executed]
  /\ UNCHANGED <<RAM, PC, I, delay_timer, sound_timer, display_cells, V,
                 need_redraw, last_step, cur_instruction, build, fault,
                 presented, hist, executed, redraw_requests, draw_calls>>

\* lines 275-277: a step is due and the instruction is fetched
Fetch ==
  /\ pc = "loop"
  /\ UNCHANGED rom_load
  /\ StepDue
  /\ LET f == fetch_instruction(Ctx, build)
     IN IF f.fault # "none"
        THEN /\ pc' = "fault"
             /\ fault' = f.fault
             /\ UNCHANGED <<PC, cur_instruction, hist>>
        ELSE /\ pc' = "decode"
             /\ PC' = f.PC
             /\ cur_instruction' = f.instruction
             /\ hist' = <<[before |-> Ctx, instruction |-> f.instruction]>>
                        \o (IF hist = <<>> THEN <<>> ELSE <<hist[1]>>)
             /\ UNCHANGED fault
  /\ UNCHANGED <<RAM, I, delay_timer, sound_timer, display_cells, V, need_redraw,
                 last_step, now, build, presented, executed, redraw_requests,
                 draw_calls, entry>>

\* line 279: decode_instruction; a fault stops the run with the state as it was
Decode ==
  /\ pc = "decode"
  /\ UNCHANGED rom_load
  /\ LET c == decode_instruction(cur_instruction, Ctx, build)
     IN IF c.fault # "none"
        THEN /\ pc' = "fault"
             /\ fault' = c.fault
             /\ UNCHANGED <<RAM, PC, I, delay_timer, sound_timer, display_cells,
                            V, need_redraw, last_step, executed, redraw_requests>>
        ELSE /\ pc' = "redraw"
             /\ RAM' = c.RAM
             /\ PC' = c.PC
             /\ I' = c.I
             /\ delay_timer' = c.delay_timer
             /\ sound_timer' = c.sound_timer
             /\ display_cells' = c.display_cells
             /\ V' = c.V
             /\ need_redraw' = c.need_redraw
             /\ last_step' = c.last_step
             /\ executed' = executed + 1
             /\ redraw_requests' = redraw_requests + (IF c.need_redraw THEN 1 ELSE 0)
             /\ UNCHANGED fault
  /\ UNCHANGED <<now, cur_instruction, build, presented, hist, draw_calls, entry>>

\* a step account that drops the time debt: last_step = now
NextStepTimeNow(step_time, t) == t

\* line 288: as->last_step += STEP_RATE_IN_MILLISECONDS
NextStepTime(step_time, t) == step_time + STEP_RATE_IN_MILLISECONDS

\* a redraw check that presents the frame and leaves the flag set
PresentKeepFlag ==
  /\ pc = "redraw"
  /\ UNCHANGED rom_load
  /\ IF need_redraw
     THEN /\ presented' = [shown |-> TRUE, frame |-> draw_screen(display_cells)]
          /\ draw_calls' = draw_calls + 1
     ELSE UNCHANGED <<presented, draw_calls>>
  /\ last_step' = NextStepTime(last_step, now)
  /\ pc' = "loop"
  /\ UNCHANGED <<RAM, PC, I, delay_timer, sound_timer, display_cells, V,
                 need_redraw, now, cur_instruction, build, fault, hist, executed,
                 redraw_requests, entry>>

\* lines 283-288: present the frame if asked, then account for the step
Present ==
  /\ pc = "redraw"
  /\ UNCHANGED rom_load
  /\ IF need_redraw
     THEN /\ presented' = [shown |-> TRUE, frame |-> draw_screen(display_cells)]
          /\ draw_calls' = draw_calls + 1
          /\ need_redraw' = FALSE
     ELSE UNCHANGED <<presented, draw_calls, need_redraw>>
  /\ last_step' = NextStepTime(last_step, now)
  /\ pc' = "loop"
  /\ UNCHANGED <<RAM, PC, I, delay_timer, sound_timer, display_cells, V, now,
                 cur_instruction, build, fault, hist, executed, redraw_requests,
                 entry>>

\* lines 275, 291-293: no step is due and the callback returns
Return ==
  /\ pc = "loop"
  /\ UNCHANGED rom_load
  /\ ~StepDue
  /\ pc' = "idle"
  /\ UNCHANGED <<RAM, PC, I, delay_timer, sound_timer, display_cells, V,
                 need_redraw, last_step, now, cur_instruction, build, fault,
                 presented, hist, executed, redraw_requests, draw_calls, entry>>

Next == AppIterate \/ Fetch \/ Decode \/ Present \/ Return

Spec == Init /\ [][Next]_vars

\* start-up alone, from before the ROM is read
SpecRom == InitRom /\ [][SDL_AppInit]_vars

(* ======================================================================= *)
(* Properties                                                              *)
(* ======================================================================= *)
\* the state before the last fetch, and the operands of the last instruction
Before == hist[1].before
PostFetchPC == (Before.PC + 2) % 65536
OpX == GET_SECOND_NIBBLE(cur_instruction)
OpY == GET_THIRD_NIBBLE(cur_instruction)
OpN == GET_FOURTH_NIBBLE(cur_instruction)
OpNN == GET_THIRD_AND_FORTH_NIBBLES(cur_instruction)
OpNNN == GET_SECOND_THIRD_AND_FOURTH_NIBBLES(cur_instruction)
\* the last fetched instruction has been executed and not yet presented
Executed(first_nibble) ==
  pc = "redraw" /\ GET_FIRST_NIBBLE(cur_instruction) = first_nibble

\* C1: a fetch with PC and PC + 1 inside RAM returns RAM[PC] * 256 + RAM[PC + 1],
\* advances PC by 2 and changes nothing else of the machine state.
C1_FetchBigEndian ==
  (pc = "decode" /\ Before.PC + 1 < RAM_SIZE) =>
    /\ cur_instruction = RamAt(Before.RAM, Before.PC) * 256
                         + RamAt(Before.RAM, Before.PC + 1)
    /\ PC = Before.PC + 2
    /\ RAM = Before.RAM
    /\ V = Before.V
    /\ I = Before.I
    /\ delay_timer = Before.delay_timer
    /\ sound_timer = Before.sound_timer
    /\ display_cells = Before.display_cells
    /\ need_redraw = Before.need_redraw
    /\ last_step = Before.last_step

\* C1 witness: the bytes 0x12, 0x34 were fetched as 0x1234 from PC = 0x200
C1_Witness ==
  /\ pc = "decode"
  /\ Before.PC = ROM_GAME_ADDRESS_START
  /\ RamAt(RAM, Before.PC) = 18
  /\ RamAt(RAM, Before.PC + 1) = 52
  /\ cur_instruction = 4660
  /\ PC = ROM_GAME_ADDRESS_START + 2

SpriteBit(sprite_data, x) == BitOf(sprite_data, 7 - x)
\* the last instruction is a DRW that ran to its end; its operands
DrawX0 == Before.V[OpX]
DrawY0 == Before.V[OpY]

\* C3: drawing the same sprite twice at the same coordinates, with nothing in
\* between, returns every display row to its value before the first draw:
\* two DRW words in a row with the same operands, the same register values as
\* coordinates and the same I.
C3_DrawTwiceRestores ==
  ( /\ Executed(13)
    /\ Len(hist) = 2
    /\ hist[2].instruction = cur_instruction
    /\ hist[2].before.V[OpX] = DrawX0
    /\ hist[2].before.V[OpY] = DrawY0
    /\ hist[2].before.I = Before.I
    /\ hist[2].before.RAM = Before.RAM )
  => display_cells = hist[2].before.display_cells

\* C4: a sprite pixel of sprite column x drawn with left edge x0 lands on
\* display column (x0 + x) mod 64: after a DRW whose rows and sprite bytes are
\* in range, every cell of a target row is its old value xor the sprite bit of
\* the sprite column that wraps onto it.
C4_ColumnWrap ==
  ( /\ Executed(13)
    /\ DrawY0 + OpN <= CHIP8_DISPLAY_HEIGHT
    /\ Before.I + OpN <= RAM_SIZE )
  => \A y \in 0 .. OpN - 1, x \in 0 .. 7 :
       LET col == (DrawX0 + x) % CHIP8_DISPLAY_WIDTH
           old == get_display_cell(Before.display_cells, DrawY0 + y, col)
           bit == SpriteBit(RamAt(Before.RAM, Before.I + y), x)
       IN get_display_cell(display_cells, DrawY0 + y, col) = (old + bit) % 2

\* C5: every access of a DRW is in range: the display row index is in 0..31,
\* the shift count in 0..63 and the sprite address in 0..4095.
C5_DrawAccessesInRange ==
  Executed(13) =>
    \A y \in 0 .. OpN - 1 :
      /\ RowIndex(DrawY0, y) \in 0 .. CHIP8_DISPLAY_HEIGHT - 1
      /\ SpriteAddress(Before.I, y) \in 0 .. RAM_SIZE - 1
      /\ \A x \in 0 .. 7 : BitPos(DrawX0, x) \in 0 .. CHIP8_DISPLAY_WIDTH - 1

\* the parts of the machine state an instruction may leave alone
SameRAM == RAM = Before.RAM
SameV == V = Before.V
SameI == I = Before.I
SameTimers == delay_timer = Before.delay_timer /\ sound_timer = Before.sound_timer
SameDisplay == display_cells = Before.display_cells
SameRedraw == need_redraw = Before.need_redraw
SamePC == PC = PostFetchPC

\* a word of no implemented category
Unknown(instruction) ==
  /\ GET_FIRST_NIBBLE(instruction) \notin {1, 6, 7, 10, 13}
  /\ ~(GET_FIRST_NIBBLE(instruction) = 0 /\ GET_THIRD_NIBBLE(instruction) = 14)

\* C6: executing a word of no implemented category changes neither V, RAM, I,
\* the display, the timers nor need_redraw and leaves PC at old PC + 2; it is
\* never what ends the run.
C6_UnknownOpcode ==
  /\ (pc = "redraw" /\ Unknown(cur_instruction)) =>
       ( /\ SameV /\ SameRAM /\ SameI /\ SameDisplay /\ SameTimers /\ SameRedraw
         /\ PC = Before.PC + 2 )
  /\ (pc = "fault" /\ fault # "fetch") => ~Unknown(cur_instruction)

\* C6 witness: the unknown word 0x8123 was executed on a machine with V3 = 0xFF,
\* I = 0x200 and a lit display
C6_Witness ==
  /\ pc = "redraw"
  /\ cur_instruction = Op(8, 1, 2, 3)
  /\ V[3] = 255
  /\ I = ROM_GAME_ADDRESS_START
  /\ display_cells[0] # {}
  /\ PC = Before.PC + 2

\* C7: a word with first nibble 0 and third nibble 0xE leaves every display row
\* empty and need_redraw set; V, I, RAM, the timers and the post-fetch PC stay.
C7_ClearScreen ==
  (Executed(0) /\ OpY = 14) =>
    /\ \A r \in 0 .. CHIP8_DISPLAY_HEIGHT - 1 : display_cells[r] = {}
    /\ need_redraw
    /\ SameV /\ SameI /\ SameRAM /\ SameTimers /\ SamePC

\* C7 witness: 0x00E0 was executed on a lit display
C7_Witness ==
  /\ Executed(0)
  /\ cur_instruction = Op(0, 0, 14, 0)
  /\ Before.display_cells[0] # {}
  /\ display_cells[0] = {}
  /\ need_redraw

\* C8: 0x1NNN sets PC to NNN whatever PC was, and changes nothing else.
C8_Jump ==
  Executed(1) =>
    /\ PC = OpNNN
    /\ SameV /\ SameI /\ SameRAM /\ SameDisplay /\ SameTimers /\ SameRedraw

\* C8 witness: 0x1ABC was executed at PC = 0x206 and PC is 0xABC
C8_Witness ==
  /\ Executed(1)
  /\ cur_instruction = Op(1, 10, 11, 12)
  /\ Before.PC = ROM_GAME_ADDRESS_START + 6
  /\ PC = 2748

\* C9: 0x6XNN sets V[X] to NN and leaves every other register, I, RAM, the
\* display and need_redraw unchanged.
C9_LoadImmediate ==
  Executed(6) =>
    /\ V[OpX] = OpNN
    /\ \A j \in 0 .. 15 : j # OpX => V[j] = Before.V[j]
    /\ SameI /\ SameRAM /\ SameDisplay /\ SameRedraw /\ SameTimers /\ SamePC

\* C9 witness: 0x6307 was executed with V3 = 0xFF and V3 is 7
C9_Witness ==
  /\ Executed(6)
  /\ cur_instruction = Op(6, 3, 0, 7)
  /\ Before.V[3] = 255
  /\ V[3] = 7

\* C10: 0x7XNN sets V[X] to (V[X] + NN) mod 256 and changes no other register:
\* VF keeps its value when X # 0xF, also when the sum exceeds 255.
C10_AddImmediate ==
  Executed(7) =>
    /\ V[OpX] = (Before.V[OpX] + OpNN) % 256
    /\ \A j \in 0 .. 15 : j # OpX => V[j] = Before.V[j]

\* C10 witness: 0x7002 was executed with V0 = 0xFF and VF = 7; V0 is 1, VF is 7
C10_Witness ==
  /\ Executed(7)
  /\ cur_instruction = Op(7, 0, 0, 2)
  /\ Before.V[0] = 255
  /\ Before.V[15] = 7
  /\ V[0] = 1
  /\ V[15] = 7

\* C11: 0xANNN sets I to NNN (so I is in 0..0xFFF) whatever I was, and leaves
\* V, RAM, the display, need_redraw and the post-fetch PC unchanged.
C11_LoadIndex ==
  Executed(10) =>
    /\ I = OpNNN
    /\ I \in 0 .. 4095
    /\ SameV /\ SameRAM /\ SameDisplay /\ SameRedraw /\ SameTimers /\ SamePC

\* C11 witness: 0xA123 was executed with I = 0x200 and I is 0x123
C11_Witness ==
  /\ Executed(10)
  /\ cur_instruction = Op(10, 1, 2, 3)
  /\ Before.I = ROM_GAME_ADDRESS_START
  /\ I = 291
  /\ V[3] = 255

\* C12: an instruction that leaves need_redraw set is followed by exactly one
\* call of draw_screen and the clearing of the flag before the next fetch:
\* need_redraw is false at the loop test, after a fetch and when SDL_AppIterate
\* has returned, and there the calls of draw_screen number the instructions
\* that asked for a redraw; every executed instruction is accounted for in
\* last_step before the next one is fetched.
C12_RedrawBeforeNextFetch ==
  /\ pc \in {"idle", "loop", "decode"} =>
       /\ ~need_redraw
       /\ draw_calls = redraw_requests
  /\ pc = "redraw" =>
       draw_calls = redraw_requests - (IF need_redraw THEN 1 ELSE 0)
  /\ pc = "decode" =>
       last_step = entry.start + STEP_RATE_IN_MILLISECONDS * executed

\* C12 witness: two instructions asked for a redraw, draw_screen ran twice and
\* the next instruction has been fetched with the flag clear
C12_Witness ==
  /\ pc = "decode"
  /\ redraw_requests = 2
  /\ draw_calls = 2
  /\ presented.shown
  /\ ~need_redraw

\* C13: after every execution of 0xDXYN the register VF is 0, whatever it held
\* before and whether or not a display bit flipped.
C13_DrawZeroesVF ==
  Executed(13) => V[15] = 0

\* C14: every fetch reads only addresses inside memory: the PC a completed
\* fetch started from satisfies PC + 1 <= 0xFFF.
C14_FetchInMemory ==
  pc = "decode" => Before.PC + 1 <= RAM_SIZE - 1

\* C15: after a DRW with x0 = V[X] <= 56, y0 + n <= 32 and I + n <= 4096, every
\* pixel get_display_cell(y0 + y, x0 + x), y in 0..n-1 and x in 0..7, is its old
\* value xor bit (7 - x) of RAM[I + y]; display column c is bit 63 - c of the
\* row; need_redraw is set.
C15_DrawInRange ==
  ( /\ Executed(13)
    /\ DrawX0 <= CHIP8_DISPLAY_WIDTH - 8
    /\ DrawY0 + OpN <= CHIP8_DISPLAY_HEIGHT
    /\ Before.I + OpN <= RAM_SIZE )
  => /\ need_redraw
     /\ \A y \in 0 .. OpN - 1, x \in 0 .. 7 :
          LET old == get_display_cell(Before.display_cells, DrawY0 + y, DrawX0 + x)
              bit == BitOf(RamAt(Before.RAM, Before.I + y), 7 - x)
              new == get_display_cell(display_cells, DrawY0 + y, DrawX0 + x)
          IN /\ new = (old + bit) % 2
             /\ new = 1 <=> (63 - (DrawX0 + x)) \in display_cells[DrawY0 + y]

\* C15 witness: DRW V0,V1,2 with V0 = 5, V1 = 0 and I = 0x200 ran on a display
\* that held the sprite 0x60, 0x05 there: column 6 of row 0 went from 1 to 0,
\* column 5 stayed 0 and row 1 lost columns 10 and 12
C15_Witness ==
  /\ Executed(13)
  /\ cur_instruction = Op(13, 0, 1, 2)
  /\ DrawX0 = 5 /\ DrawY0 = 0
  /\ Before.I = ROM_GAME_ADDRESS_START
  /\ RamAt(Before.RAM, Before.I) = 96
  /\ get_display_cell(Before.display_cells, 0, 6) = 1
  /\ get_display_cell(display_cells, 0, 6) = 0
  /\ get_display_cell(Before.display_cells, 0, 5) = 0
  /\ get_display_cell(display_cells, 0, 5) = 0
  /\ get_display_cell(Before.display_cells, 1, 12) = 1
  /\ get_display_cell(display_cells, 1, 12) = 0
  /\ need_redraw

\* frame holds exactly the lit cells of the display: every cell of the frame
\* is lit, and every set bit p of a row is the cell of column 63 - p
FrameShows(frame, cells) ==
  /\ \A c \in frame :
       /\ c[1] \in 0 .. CHIP8_DISPLAY_WIDTH - 1
       /\ c[2] \in 0 .. CHIP8_DISPLAY_HEIGHT - 1
       /\ get_display_cell(cells, c[2], c[1]) = 1
  /\ \A r \in 0 .. CHIP8_DISPLAY_HEIGHT - 1 :
       \A p \in cells[r] : <<CHIP8_DISPLAY_WIDTH - 1 - p, r>> \in frame

\* C16: every instruction that changes a display bit sets need_redraw, and at
\* every instruction boundary of the pacing loop the frame last handed to
\* draw_screen is the current display, or no frame has been presented yet and
\* the display is all zero.
C16_PresentedFrameTracksDisplay ==
  /\ (pc = "redraw" /\ display_cells # Before.display_cells) => need_redraw
  /\ pc \in {"idle", "loop"} =>
       IF presented.shown
       THEN FrameShows(presented.frame, display_cells)
       ELSE \A r \in 0 .. CHIP8_DISPLAY_HEIGHT - 1 : display_cells[r] = {}

\* C16 witness: a sprite was drawn and presented; the frame on screen is the
\* display, which has lit pixels, and the next instruction has not been fetched
C16_Witness ==
  /\ pc = "loop"
  /\ presented.shown
  /\ <<0, 0>> \in presented.frame
  /\ <<1, 0>> \notin presented.frame
  /\ get_display_cell(display_cells, 0, 0) = 1
  /\ presented.frame = draw_screen(display_cells)
  /\ draw_calls = 1
  /\ executed = 2

\* the state SDL_AppInit leaves when exactly the bytes of the file are in
\* RAM[0x200 .. 0x200 + s - 1] and all other memory is as calloc left it
RomLoadedExactly ==
  /\ pc = "idle"
  /\ \A a \in 0 .. RAM_SIZE - 1 :
       RamAt(RAM, a) =
         IF a \in ROM_GAME_ADDRESS_START ..
                    ROM_GAME_ADDRESS_START + Len(rom_load.file) - 1
         THEN rom_load.file[a - ROM_GAME_ADDRESS_START + 1]
         ELSE 0
  /\ rom_load.copied = Len(rom_load.file)
\* nothing but RAM has been written since line 129
NothingBeyondRam ==
  /\ PC = StartContext.PC
  /\ I = StartContext.I
  /\ delay_timer = StartContext.delay_timer
  /\ sound_timer = StartContext.sound_timer
  /\ display_cells = StartContext.display_cells
  /\ V = StartContext.V

\* C17: read_rom_file reports a file of more than 3584 bytes and rejects or
\* truncates it: it copies at most 3584 bytes and writes nothing above 0xFFF;
\* of a file of s <= 3584 bytes exactly RAM[0x200 .. 0x200 + s - 1] receive
\* the bytes and all other memory stays zero.
C17_OversizedRom ==
  pc # "init" =>
    /\ NothingBeyondRam
    /\ IF Len(rom_load.file) > ROM_MAX_SIZE
       THEN rom_load.reported /\ rom_load.copied <= ROM_MAX_SIZE
       ELSE RomLoadedExactly

\* the part of C17 about files of at most 3584 bytes
C17_RomThatFits ==
  (pc # "init" /\ Len(rom_load.file) <= ROM_MAX_SIZE) =>
    NothingBeyondRam /\ RomLoadedExactly

\* C18: a DRW with x0 = V[X] <= 56 and y0 + n <= 32 changes no display bit
\* outside rows y0..y0+n-1 and columns x0..x0+7 and no register other than VF,
\* and leaves I, RAM, the timers and the post-fetch PC unchanged; with n = 0
\* the display is unchanged, VF is zeroed and need_redraw is set.  (The bits
\* that differ between the old and the new row are the changed cells; bit p is
\* column 63 - p.)
C18_DrawFrame ==
  ( /\ Executed(13)
    /\ DrawX0 <= CHIP8_DISPLAY_WIDTH - 8
    /\ DrawY0 + OpN <= CHIP8_DISPLAY_HEIGHT )
  => /\ \A r \in 0 .. CHIP8_DISPLAY_HEIGHT - 1 :
          \A p \in XorBits(display_cells[r], Before.display_cells[r]) :
            /\ r \in DrawY0 .. DrawY0 + OpN - 1
            /\ (CHIP8_DISPLAY_WIDTH - 1 - p) \in DrawX0 .. DrawX0 + 7
     /\ \A r \in 0 .. 14 : V[r] = Before.V[r]
     /\ SameI /\ SameRAM /\ SameTimers /\ SamePC
     /\ OpN = 0 => (SameDisplay /\ V[15] = 0 /\ need_redraw)

\* C18 witness: DRW V1,V0,0 ran with VF = 7 on a display with lit pixels: the
\* display is as it was, VF is 0 and need_redraw is set
C18_Witness ==
  /\ Executed(13)
  /\ OpN = 0
  /\ Before.V[15] = 7
  /\ V[15] = 0
  /\ get_display_cell(Before.display_cells, 0, 0) = 1
  /\ display_cells = Before.display_cells
  /\ I = ROM_GAME_ADDRESS_START
  /\ need_redraw

\* C19: DRW reads x0 = V[X] and y0 = V[Y] before it zeroes VF: with X or Y =
\* 0xF the sprite is drawn at the value VF had before the instruction; the
\* same DRW word executed again right after uses coordinate 0 for that operand.
C19_DrawOperandOrder ==
  /\ ( /\ Executed(13)
       /\ OpX = 15 \/ OpY = 15
       /\ DrawX0 <= CHIP8_DISPLAY_WIDTH - 8
       /\ DrawY0 + OpN <= CHIP8_DISPLAY_HEIGHT
       /\ Before.I + OpN <= RAM_SIZE )
     => \A y \in 0 .. OpN - 1, x \in 0 .. 7 :
          get_display_cell(display_cells, DrawY0 + y, DrawX0 + x)
          = ( get_display_cell(Before.display_cells, DrawY0 + y, DrawX0 + x)
              + SpriteBit(RamAt(Before.RAM, Before.I + y), x) ) % 2
  /\ ( /\ Executed(13)
       /\ Len(hist) = 2
       /\ hist[2].instruction = cur_instruction )
     => /\ OpX = 15 => DrawX0 = 0
        /\ OpY = 15 => DrawY0 = 0

\* C20: no instruction and no step of the pacing loop writes RAM, delay_timer
\* or sound_timer: in every state RAM holds what the ROM load left (the bytes
\* of the file from 0x200 on, zero elsewhere, so 0x000..0x1FF are zero) and
\* both timers are 0.
C20_MemoryAndTimersReadOnly ==
  /\ RAM = [a \in ROM_GAME_ADDRESS_START ..
                   ROM_GAME_ADDRESS_START + Len(rom_load.file) - 1 |->
              rom_load.file[a - ROM_GAME_ADDRESS_START + 1]]
  /\ \A a \in DOMAIN RAM : a >= ROM_GAME_ADDRESS_START /\ a < RAM_SIZE
  /\ RamAt(RAM, 0) = 0 /\ RamAt(RAM, ROM_GAME_ADDRESS_START - 1) = 0
  /\ delay_timer = 0
  /\ sound_timer = 0
  /\ hist # <<>> => (SameRAM /\ SameTimers)

\* C20 witness: LD I, DRW and two clears have run and SDL_AppIterate has
\* returned; RAM still holds the ROM and the timers are 0
C20_Witness ==
  /\ pc = "idle"
  /\ executed = 4
  /\ draw_calls = 3
  /\ I = ROM_GAME_ADDRESS_START
  /\ RamAt(RAM, ROM_GAME_ADDRESS_START) = 162
  /\ RamAt(RAM, ROM_GAME_ADDRESS_START + 7) = 231
  /\ RamAt(RAM, 0) = 0
  /\ delay_timer = 0
  /\ sound_timer = 0

====
